---- MODULE Spec2Model ----
(***************************************************************************)
(* SimpleFlareWallet (Solidity ^0.8.20): a single-owner vault holding      *)
(* native value.  The model follows the contract statement by statement.   *)
(* A value transfer `_to.call{value: x}("")` hands control to the          *)
(* recipient: an externally owned account simply receives, the vault's own *)
(* address runs receive(), and a contract recipient runs code of its own   *)
(* choice (it may call back into the vault, then accept or revert).        *)
(* The front end's retryWithBackoff helper is modelled beside it, as the   *)
(* loop of one call (SpecRetry), and so are the useContract hook and the   *)
(* page's transaction handlers, one step per continuation between awaits   *)
(* (SpecHook).                                                             *)
(***************************************************************************)
EXTENDS Integers, Sequences, FiniteSets, TLC

\* ---------------------------------------------------------------- bounds
\* hook transactions started in one behaviour of the front end
MaxOps == 2
\* native value every account holds when the vault is constructed
Funds == 1
\* notifications recorded before the model stops starting calls
MaxLog == 3
\* nesting depth of value transfers whose recipient is still running
MaxDepth == 1

\* ------------------------------------------------------------- addresses
ZeroAddress == "0x0"
This == "this"
\* externally owned accounts: no code, always accept value
EOA == {"A", "B"}
\* accounts with code of their own: may accept, revert or call back
Contracts == {"R"}
\* the accounts that send transactions and hold funds at construction; "B" is an
\* externally owned account that only ever receives
Senders == {"A"} \cup Contracts
Addresses == EOA \cup Contracts \cup {This, ZeroAddress}

\* ------------------------------------------------- revert reasons (code)
NotOwner == "Not owner"
ZeroAddr == "Zero address"
NoFLRSent == "No FLR sent"
InsufficientBal == "Insufficient balance"
TransferFailedMsg == "Transfer failed"
NoBalanceMsg == "No balance"
Ok == "ok"
\* the outcome of a call whose value transfer has not returned yet
Pending == "pending"

\* the spec's failure kinds (spec section 7) as the code's revert reasons
Unauthorized == NotOwner
InvalidRecipient == ZeroAddr
ZeroValue == NoFLRSent
InsufficientBalance == InsufficientBal
TransferFailed == TransferFailedMsg
NoBalance == NoBalanceMsg

VARIABLES
    owner,      \* address public owner
    balanceOf,  \* the ledger: native balance of every account, the vault's included
    log,        \* the notifications emitted so far, in order
    stack,      \* withdraw / withdrawAll calls whose recipient is still running
    last,       \* the call that completed last: arguments, outcome, state before it
    retry,      \* the front end's retryWithBackoff call: loop index, attempts, waits
    hook,       \* useContract's React state: contractBalance, owner, isLoading, error, txStatus
    tx,         \* the hook transaction in progress: where it stands, what it got
    pending,    \* the page's refresh in flight and the clear-status timers not yet fired
    page        \* the page: isConnected, isProcessing, the input fields, the last handler run

vars == <<owner, balanceOf, log, stack, last, retry, hook, tx, pending, page>>

\* the front end's variables besides the retry helper's
frontEnd == <<hook, tx, pending, page>>

\* ---------------------------------------------------------------- events
Deposited(from, amount) == [name |-> "Deposited", from |-> from, amount |-> amount]

\* faulty variant: the notification names the owner, not the recipient
WithdrawnToOwner(to, amount) == [name |-> "Withdrawn", to |-> owner, amount |-> amount]

Withdrawn(to, amount) == [name |-> "Withdrawn", to |-> to, amount |-> amount]

OwnerChanged(oldOwner, newOwner) ==
    [name |-> "OwnerChanged", oldOwner |-> oldOwner, newOwner |-> newOwner]

\* ------------------------------------------------------------ state view
State == [owner |-> owner, balanceOf |-> balanceOf, log |-> log]

\* `returned` is what the call's value transfer reported: "none" when no transfer
\* was attempted or it has not returned, else "success" or "failure"
Call(op, sender, to, amount, outcome, trace, returned, pre, depth) ==
    [op |-> op, sender |-> sender, to |-> to, amount |-> amount,
     outcome |-> outcome, trace |-> trace, returned |-> returned, pre |-> pre,
     depth |-> depth]

\* who may call now: anyone between transactions, the running recipient otherwise
MaySend(sender) ==
    IF stack = <<>> THEN sender \in Senders ELSE sender = stack[Len(stack)].to

\* the model starts a call only while the log has room for the `n` notifications
\* it may emit and for the one each running withdrawal emits when it completes
Room(n) == Len(log) + Len(stack) + n <= MaxLog

\* ------------------------------------------------------------- modifiers
\* faulty variant: the modifier lets everyone through
onlyOwnerOpen(sender) == TRUE

onlyOwner(sender) == sender = owner

\* ---------------------------------------------------------- the ledger
\* `amount` of native value moves from one account to another
Move(ledger, from, to, amount) ==
    IF from = to THEN ledger
    ELSE [ledger EXCEPT ![from] = @ - amount, ![to] = @ + amount]

\* ----------------------------------------------------------- changeOwner
\* faulty variant: the zero-address check is missing
changeOwnerChecksNoZeroCheck(sender, newOwner) ==
    IF ~onlyOwner(sender) THEN NotOwner ELSE Ok

changeOwnerChecks(sender, newOwner) ==
    IF ~onlyOwner(sender) THEN NotOwner
    ELSE IF ~(newOwner # ZeroAddress) THEN ZeroAddr
    ELSE Ok

\* faulty variant: owner is assigned before the emit reads it
changeOwnerBodyAssignFirst(newOwner) ==
    [log |-> Append(log, OwnerChanged(newOwner, newOwner)), owner |-> newOwner]

\* faulty variant: the assignment is missing
changeOwnerBodyNoAssign(newOwner) ==
    [log |-> Append(log, OwnerChanged(owner, newOwner)), owner |-> owner]

\* emit OwnerChanged(owner, _newOwner); owner = _newOwner;
changeOwnerBody(newOwner) ==
    [log |-> Append(log, OwnerChanged(owner, newOwner)), owner |-> newOwner]

ChangeOwner(sender, newOwner) ==
    /\ MaySend(sender)
    /\ Room(1)
    /\ LET r == changeOwnerChecks(sender, newOwner)
           b == changeOwnerBody(newOwner)
       IN  /\ IF r = Ok
              THEN /\ log' = b.log
                   /\ owner' = b.owner
              ELSE UNCHANGED <<owner, log>>
           /\ last' = Call("changeOwner", sender, newOwner, 0, r, <<>>, "none", State, Len(stack))
    /\ UNCHANGED <<balanceOf, stack, retry, frontEnd>>

\* --------------------------------------------------------------- deposit
\* faulty variant: a deposit of nothing is let through
depositChecksAny(value) == Ok

depositChecks(value) == IF ~(value > 0) THEN NoFLRSent ELSE Ok

\* msg.value is credited before the body runs and returned when it reverts
Deposit(sender, value) ==
    /\ MaySend(sender)
    /\ Room(1)
    /\ value <= balanceOf[sender]
    /\ LET r == depositChecks(value)
       IN  /\ IF r = Ok
              THEN /\ balanceOf' = Move(balanceOf, sender, This, value)
                   /\ log' = Append(log, Deposited(sender, value))
              ELSE UNCHANGED <<balanceOf, log>>
           /\ last' = Call("deposit", sender, This, value, r, <<>>, "none", State, Len(stack))
    /\ UNCHANGED <<owner, stack, retry, frontEnd>>

\* --------------------------------------------------------------- receive
\* faulty variant: the value is taken and nothing is recorded
ReceiveNoEmit(sender, value) ==
    /\ MaySend(sender)
    /\ Room(1)
    /\ value <= balanceOf[sender]
    /\ balanceOf' = Move(balanceOf, sender, This, value)
    /\ last' = Call("receive", sender, This, value, Ok, <<>>, "none", State, Len(stack))
    /\ UNCHANGED <<owner, stack, log, retry, frontEnd>>

\* a plain transfer to the vault: empty calldata, any value
Receive(sender, value) ==
    /\ MaySend(sender)
    /\ Room(1)
    /\ value <= balanceOf[sender]
    /\ balanceOf' = Move(balanceOf, sender, This, value)
    /\ log' = Append(log, Deposited(sender, value))
    /\ last' = Call("receive", sender, This, value, Ok, <<>>, "none", State, Len(stack))
    /\ UNCHANGED <<owner, stack, retry, frontEnd>>

\* ------------------------------------------------ withdraw / withdrawAll
\* the statements a call went through, in order, are kept as its trace
\* faulty variant: the balance check is missing
withdrawChecksNoBalanceCheck(sender, to, amount) ==
    IF ~onlyOwner(sender)
    THEN [outcome |-> NotOwner, trace |-> <<"onlyOwner">>]
    ELSE IF ~(to # ZeroAddress)
    THEN [outcome |-> ZeroAddr, trace |-> <<"onlyOwner", "requireTo">>]
    ELSE [outcome |-> Ok, trace |-> <<"onlyOwner", "requireTo">>]

withdrawChecks(sender, to, amount) ==
    IF ~onlyOwner(sender)
    THEN [outcome |-> NotOwner, trace |-> <<"onlyOwner">>]
    ELSE IF ~(to # ZeroAddress)
    THEN [outcome |-> ZeroAddr, trace |-> <<"onlyOwner", "requireTo">>]
    ELSE IF ~(balanceOf[This] >= amount)
    THEN [outcome |-> InsufficientBal,
          trace |-> <<"onlyOwner", "requireTo", "requireBalance">>]
    ELSE [outcome |-> Ok, trace |-> <<"onlyOwner", "requireTo", "requireBalance">>]

\* faulty variant: the recipient is checked before the balance
withdrawAllChecksToFirst(sender, to, balance) ==
    IF ~onlyOwner(sender)
    THEN [outcome |-> NotOwner, trace |-> <<"onlyOwner">>]
    ELSE IF ~(to # ZeroAddress)
    THEN [outcome |-> ZeroAddr, trace |-> <<"onlyOwner", "requireTo">>]
    ELSE IF ~(balance > 0)
    THEN [outcome |-> NoBalanceMsg,
          trace |-> <<"onlyOwner", "requireTo", "requireBalance">>]
    ELSE [outcome |-> Ok, trace |-> <<"onlyOwner", "requireTo", "requireBalance">>]

\* faulty variant: the recipient check is missing
withdrawAllChecksNoToCheck(sender, to, balance) ==
    IF ~onlyOwner(sender)
    THEN [outcome |-> NotOwner, trace |-> <<"onlyOwner">>]
    ELSE IF ~(balance > 0)
    THEN [outcome |-> NoBalanceMsg, trace |-> <<"onlyOwner", "requireBalance">>]
    ELSE [outcome |-> Ok, trace |-> <<"onlyOwner", "requireBalance">>]

\* `balance` is the local read of address(this).balance at the start of the body
withdrawAllChecks(sender, to, balance) ==
    IF ~onlyOwner(sender)
    THEN [outcome |-> NotOwner, trace |-> <<"onlyOwner">>]
    ELSE IF ~(balance > 0)
    THEN [outcome |-> NoBalanceMsg, trace |-> <<"onlyOwner", "requireBalance">>]
    ELSE IF ~(to # ZeroAddress)
    THEN [outcome |-> ZeroAddr,
          trace |-> <<"onlyOwner", "requireBalance", "requireTo">>]
    ELSE [outcome |-> Ok, trace |-> <<"onlyOwner", "requireBalance", "requireTo">>]

Returned(success) == IF success THEN "success" ELSE "failure"

\* faulty variant: the result of the call is not looked at
requireSuccessIgnored(success) == TRUE

\* require(success, "Transfer failed")
requireSuccess(success) == success

\* The statements after `_to.call{value: x}("")` has returned `success`, with
\* `now` the state the callee left (the state at the call when it failed):
\* the require, then the emit; a failed require reverts the call to `f.pre`.
afterCall(f, success, now) ==
    IF requireSuccess(success)
    THEN [owner |-> now.owner, balanceOf |-> now.balanceOf,
          log |-> Append(now.log, Withdrawn(f.to, f.amount)),
          outcome |-> Ok, trace |-> f.trace \o <<"requireSuccess", "emit">>]
    ELSE [owner |-> f.pre.owner, balanceOf |-> f.pre.balanceOf, log |-> f.pre.log,
          outcome |-> TransferFailedMsg, trace |-> Append(f.trace, "requireSuccess")]

Frame(op, sender, to, amount, trace) ==
    [op |-> op, sender |-> sender, to |-> to, amount |-> amount,
     trace |-> Append(trace, "call"), pre |-> State]

\* the callee of a value transfer has code of its own and is given control
Runs(to, amount) == to \in Contracts /\ balanceOf[This] >= amount

\* what a value transfer that returns at once leaves: the EVM refuses a value
\* the vault does not hold; the vault's own address runs receive(); any other
\* account without code is credited
sent(f) ==
    IF balanceOf[This] < f.amount
    THEN [success |-> FALSE, now |-> State]
    ELSE IF f.to = This
    THEN [success |-> TRUE,
          now |-> [State EXCEPT !.log = Append(log, Deposited(This, f.amount))]]
    ELSE [success |-> TRUE,
          now |-> [State EXCEPT !.balanceOf = Move(balanceOf, This, f.to, f.amount)]]

\* the body of withdraw and withdrawAll from the checks' result on
transfer(op, sender, to, amount, chk) ==
    LET f == Frame(op, sender, to, amount, chk.trace)
    IN  IF chk.outcome # Ok
        THEN /\ last' = Call(op, sender, to, amount, chk.outcome, chk.trace, "none",
                             State, Len(stack))
             /\ UNCHANGED <<owner, balanceOf, log, stack, retry, frontEnd>>
        ELSE IF Runs(to, amount)
        THEN /\ Len(stack) < MaxDepth
             /\ stack' = Append(stack, f)
             /\ balanceOf' = Move(balanceOf, This, to, amount)
             /\ last' = Call(op, sender, to, amount, Pending, f.trace, "none", State,
                             Len(stack))
             /\ UNCHANGED <<owner, log, retry, frontEnd>>
        ELSE LET s == sent(f)
                 r == afterCall(f, s.success, s.now)
             IN  /\ owner' = r.owner
                 /\ balanceOf' = r.balanceOf
                 /\ log' = r.log
                 /\ last' = Call(op, sender, to, amount, r.outcome, r.trace,
                                 Returned(s.success), State, Len(stack))
                 /\ UNCHANGED <<stack, retry, frontEnd>>

Withdraw(sender, to, amount) ==
    /\ MaySend(sender)
    /\ Room(IF to = This THEN 2 ELSE 1)
    /\ transfer("withdraw", sender, to, amount, withdrawChecks(sender, to, amount))

\* faulty variant: one unit less than the balance is sent
WithdrawAllKeepsOne(sender, to) ==
    /\ MaySend(sender)
    /\ Room(IF to = This THEN 2 ELSE 1)
    /\ LET balance == balanceOf[This]
       IN  transfer("withdrawAll", sender, to, balance - 1,
                    withdrawAllChecks(sender, to, balance))

WithdrawAll(sender, to) ==
    /\ MaySend(sender)
    /\ Room(IF to = This THEN 2 ELSE 1)
    /\ LET balance == balanceOf[This]
       IN  transfer("withdrawAll", sender, to, balance,
                    withdrawAllChecks(sender, to, balance))

\* --------------------------------------------- the recipient's code returns
Return(success) ==
    /\ stack # <<>>
    /\ LET f == stack[Len(stack)]
           r == afterCall(f, success, IF success THEN State ELSE f.pre)
       IN  /\ owner' = r.owner
           /\ balanceOf' = r.balanceOf
           /\ log' = r.log
           /\ stack' = SubSeq(stack, 1, Len(stack) - 1)
           /\ last' = Call(f.op, f.sender, f.to, f.amount, r.outcome, r.trace,
                           Returned(success), f.pre, Len(stack) - 1)
           /\ UNCHANGED <<retry, frontEnd>>

RecipientAccepts == Return(TRUE)

RecipientReverts == Return(FALSE)

\* ------------------------------------------- the front end's retry helper
\* async retryWithBackoff(fn, maxRetries = 3, baseDelay): the same loop in the
\* contract hook, the wallet hook and the transaction library
Helpers == {"useContract", "useWallet", "contract"}

\* maxRetries = 3, the default every caller relies on
DefaultMaxRetries == 3
\* baseDelay defaults, in milliseconds
HookBaseDelay == 2000
WalletBaseDelay == 2000
LibBaseDelay == 1000

baseDelay(helper) ==
    CASE helper = "useContract" -> HookBaseDelay
      [] helper = "useWallet" -> WalletBaseDelay
      [] helper = "contract" -> LibBaseDelay

\* what fn() rejects with: 0 stands for a field the error does not carry
RateLimitCode == -32005
TooManyRequests == 429
Errors ==
    { [code |-> RateLimitCode, httpStatus |-> 0],
      [code |-> 0, httpStatus |-> TooManyRequests],
      [code |-> 0, httpStatus |-> 0] }

\* faulty variant: only the error code is looked at
isRateLimitedCodeOnly(error) == error.code = RateLimitCode

\* error?.code === -32005 || error?.data?.httpStatus === 429
isRateLimited(error) == error.code = RateLimitCode \/ error.httpStatus = TooManyRequests

\* const delay = baseDelay * Math.pow(2, i)
delay(base, i) == base * 2 ^ i

\* no call of the helper has been made
Idle ==
    [pc |-> "idle", helper |-> "none", maxRetries |-> 0, baseDelay |-> 0, i |-> 0,
     calls |-> 0, delays |-> <<>>, errors |-> <<>>, result |-> "none",
     thrown |-> <<>>]

\* the call: `for (let i = 0; i < maxRetries; i++)`; falling out of the loop
\* returns undefined
retryWithBackoff(helper, maxRetries) ==
    /\ retry.pc = "idle"
    /\ retry' = [Idle EXCEPT !.helper = helper, !.maxRetries = maxRetries,
                              !.baseDelay = baseDelay(helper),
                              !.pc = IF 0 < maxRetries THEN "fn" ELSE "returned",
                              !.result = IF 0 < maxRetries THEN "none" ELSE "undefined"]
    /\ UNCHANGED <<owner, balanceOf, log, stack, last, frontEnd>>

\* `return await fn()`: fn resolves
FnResolves ==
    /\ retry.pc = "fn"
    /\ retry' = [retry EXCEPT !.pc = "returned", !.calls = @ + 1, !.result = "value"]
    /\ UNCHANGED <<owner, balanceOf, log, stack, last, frontEnd>>

\* `catch (error)`: fn rejects; wait and go round again, or `throw error`
FnRejects(error) ==
    /\ retry.pc = "fn"
    /\ retry' =
          IF isRateLimited(error) /\ retry.i < retry.maxRetries - 1
          THEN [retry EXCEPT !.pc = "sleep", !.calls = @ + 1,
                             !.errors = Append(@, error),
                             !.delays = Append(@, delay(retry.baseDelay, retry.i))]
          ELSE [retry EXCEPT !.pc = "thrown", !.calls = @ + 1,
                             !.errors = Append(@, error), !.result = "error",
                             !.thrown = <<error>>]
    /\ UNCHANGED <<owner, balanceOf, log, stack, last, frontEnd>>

\* the setTimeout promise resolves: `continue`, `i++`
TimerFires ==
    /\ retry.pc = "sleep"
    /\ retry' = [retry EXCEPT !.pc = "fn", !.i = @ + 1]
    /\ UNCHANGED <<owner, balanceOf, log, stack, last, frontEnd>>

\* ------------------------------------------- the useContract hook's state
\* txStatus: null, or { type, message }; `id` stands for the message, which
\* names the operation the status belongs to
Null == [type |-> "null", id |-> 0]
Status(type, id) == [type |-> type, id |-> id]

\* useState("0"), useState(null), useState(false), useState(null), useState(null)
HookAtRest ==
    [contractBalance |-> "0", owner |-> "null", isLoading |-> FALSE,
     error |-> "null", txStatus |-> Null]

\* no hook transaction has been started: `confirmed` collects the operations
\* whose tx.wait() has resolved with a receipt, `refreshed` is how the refresh
\* after the receipt ended
TxAtRest ==
    [pc |-> "idle", id |-> 0, op |-> "none", handler |-> "none", result |-> "none",
     refreshed |-> "none", confirmed |-> {}]

\* `settled` is how the page's last refresh ended
PendingAtRest == [refresh |-> "idle", settled |-> "none", clear |-> {}]

\* the page before the wallet is connected: empty fields (FALSE), nothing running;
\* `inFlight` counts the handler runs that have not ended, `last` is the last run
PageAtRest ==
    [isConnected |-> FALSE, isProcessing |-> FALSE, sendTo |-> FALSE,
     sendAmount |-> FALSE, depositAmount |-> FALSE, withdrawAllTo |-> FALSE,
     inFlight |-> 0, last |-> [handler |-> "none", outcome |-> "none"]]

Unmounted ==
    /\ hook = HookAtRest
    /\ tx = TxAtRest
    /\ pending = PendingAtRest
    /\ page = PageAtRest

\* what Promise.all of the two retried reads settles with: both values, or the
\* first rejection (an error of fn, passed on by retryWithBackoff as it is)
Answers ==
    { [ok |-> TRUE, balance |-> "1.5", owner |-> "0xA",
       error |-> [code |-> 0, httpStatus |-> 0]] }
    \cup { [ok |-> FALSE, balance |-> "0", owner |-> "null", error |-> e] : e \in Errors }

\* refresh(), connected, up to the await: setIsLoading(true); setError(null)
refreshStarted(h) == [h EXCEPT !.isLoading = TRUE, !.error = "null"]

\* faulty variant: a rate-limit error after the retries is reported like any other
refreshSettledReportsAll(h, answer) ==
    IF answer.ok
    THEN [h EXCEPT !.contractBalance = answer.balance, !.owner = answer.owner,
                   !.isLoading = FALSE]
    ELSE [h EXCEPT !.error = "Failed to load contract data", !.isLoading = FALSE]

\* refresh() from the await on: the setters, or the catch; then the finally
refreshSettled(h, answer) ==
    IF answer.ok
    THEN [h EXCEPT !.contractBalance = answer.balance, !.owner = answer.owner,
                   !.isLoading = FALSE]
    ELSE IF isRateLimited(answer.error)
    THEN [h EXCEPT !.isLoading = FALSE]
    ELSE [h EXCEPT !.error = "Failed to load contract data", !.isLoading = FALSE]

\* how a refresh ended, by what its reads settled with
ended(answer) ==
    IF answer.ok THEN "ok"
    ELSE IF isRateLimited(answer.error) THEN "rate limited" ELSE "failed"

\* refresh() with isConnected false: no call is made
refreshDisconnected(h) == [h EXCEPT !.contractBalance = "0", !.owner = "null"]

\* refresh() as the page runs it: the 15 s interval and the refresh button.
\* One such refresh is in flight at a time.
refresh ==
    /\ pending.refresh = "idle"
    /\ IF page.isConnected
       THEN /\ hook' = refreshStarted(hook)
            /\ pending' = [pending EXCEPT !.refresh = "fetch"]
       ELSE /\ hook' = refreshDisconnected(hook)
            /\ UNCHANGED pending
    /\ UNCHANGED <<owner, balanceOf, log, stack, last, retry, tx, page>>

RefreshSettles(answer) ==
    /\ pending.refresh = "fetch"
    /\ hook' = refreshSettled(hook, answer)
    /\ pending' = [pending EXCEPT !.refresh = "idle", !.settled = ended(answer)]
    /\ UNCHANGED <<owner, balanceOf, log, stack, last, retry, tx, page>>

\* the wallet connects: isConnected turns true and the effect runs refresh()
Connect ==
    /\ ~page.isConnected
    /\ pending.refresh = "idle"
    /\ page' = [page EXCEPT !.isConnected = TRUE]
    /\ hook' = refreshStarted(hook)
    /\ pending' = [pending EXCEPT !.refresh = "fetch"]
    /\ UNCHANGED <<owner, balanceOf, log, stack, last, retry, tx>>

\* the wallet disconnects: the effect runs refresh(), which resets the display;
\* what is in flight goes on with the functions it captured
Disconnect ==
    /\ page.isConnected
    /\ page' = [page EXCEPT !.isConnected = FALSE]
    /\ hook' = refreshDisconnected(hook)
    /\ UNCHANGED <<owner, balanceOf, log, stack, last, retry, tx, pending>>

\* ---------------------------------- the hook's deposit, withdraw, withdrawAll
\* the catch block's errorMessage
errorMessage(error) ==
    IF isRateLimited(error) THEN "Network is busy. Please wait a moment and try again."
    ELSE "Failed"

\* the handler's fields, emptied after the awaited call has returned
cleared(p, handler) ==
    CASE handler = "handleSendFLR" -> [p EXCEPT !.sendTo = FALSE, !.sendAmount = FALSE]
      [] handler = "handleDeposit" -> [p EXCEPT !.depositAmount = FALSE]
      [] handler = "handleWithdrawAll" -> [p EXCEPT !.withdrawAllTo = FALSE]

\* the hook function up to its first await: the guard, then setIsLoading(true),
\* setError(null), setTxStatus(pending)
started(h, id) ==
    [h EXCEPT !.isLoading = TRUE, !.error = "null", !.txStatus = Status("pending", id)]

\* faulty variant: the handler does not look at isProcessing
guardOpen(filled) == filled

\* `if (!sendTo || !sendAmount || isProcessing) return`, and its two siblings
guard(filled) == filled /\ ~page.isProcessing

\* a handler of the page: the guard, setIsProcessing(true), the hook function
\* up to its first await.  Without a connected signer the hook function throws
\* at once: the handler logs it and its finally resets isProcessing.
handle(handler, op, filled) ==
    /\ UNCHANGED <<owner, balanceOf, log, stack, last, retry, pending>>
    /\ IF ~guard(filled)
       THEN /\ page' = [page EXCEPT !.last = [handler |-> handler, outcome |-> "ignored"]]
            /\ UNCHANGED <<hook, tx>>
       ELSE IF ~page.isConnected
       THEN /\ page' = [page EXCEPT !.isProcessing = FALSE,
                                    !.last = [handler |-> handler, outcome |-> "failed"]]
            /\ UNCHANGED <<hook, tx>>
       ELSE /\ tx.id < MaxOps
            /\ page' = [page EXCEPT !.isProcessing = TRUE, !.inFlight = @ + 1,
                                    !.last = [handler |-> handler, outcome |-> "started"]]
            /\ hook' = started(hook, tx.id + 1)
            /\ tx' = [tx EXCEPT !.pc = "delay", !.id = @ + 1, !.op = op,
                                !.handler = handler, !.result = "none",
                                !.refreshed = "none"]

handleSendFLR == handle("handleSendFLR", "withdraw", page.sendTo /\ page.sendAmount)

handleDeposit == handle("handleDeposit", "deposit", page.depositAmount)

handleWithdrawAll == handle("handleWithdrawAll", "withdrawAll", page.withdrawAllTo)

\* the user types into one of the four fields
TypeInput(field) ==
    /\ ~page[field]
    /\ page' = [page EXCEPT ![field] = TRUE]
    /\ UNCHANGED <<owner, balanceOf, log, stack, last, retry, hook, tx, pending>>

\* `await new Promise(resolve => setTimeout(resolve, 500))` is over: the
\* library function is called and the wallet is asked to send
DelayElapsed ==
    /\ tx.pc = "delay"
    /\ tx' = [tx EXCEPT !.pc = "submit"]
    /\ UNCHANGED <<owner, balanceOf, log, stack, last, retry, hook, pending, page>>

\* the hook's catch and finally, then the handler's catch and finally
failed(message) ==
    /\ hook' = [hook EXCEPT !.error = message, !.txStatus = Status("error", tx.id),
                            !.isLoading = FALSE]
    /\ tx' = [tx EXCEPT !.pc = "idle", !.result = "thrown"]
    /\ page' = [page EXCEPT !.isProcessing = FALSE, !.inFlight = @ - 1,
                            !.last = [handler |-> tx.handler, outcome |-> "failed"]]
    /\ UNCHANGED <<owner, balanceOf, log, stack, last, retry, pending>>

\* faulty variant: the status turns to success as soon as the transaction is sent
SubmitResolvesOptimistic ==
    /\ tx.pc = "submit"
    /\ hook' = [hook EXCEPT !.txStatus = Status("success", tx.id)]
    /\ tx' = [tx EXCEPT !.pc = "wait"]
    /\ UNCHANGED <<owner, balanceOf, log, stack, last, retry, pending, page>>

\* the library function returns the sent transaction: "Transaction sent: hash",
\* then the race between tx.wait() and the 60 s timer begins
SubmitResolves ==
    /\ tx.pc = "submit"
    /\ hook' = [hook EXCEPT !.txStatus = Status("pending", tx.id)]
    /\ tx' = [tx EXCEPT !.pc = "wait"]
    /\ UNCHANGED <<owner, balanceOf, log, stack, last, retry, pending, page>>

\* the library function throws (the wallet refuses, the node answers an error)
SubmitRejects(error) ==
    /\ tx.pc = "submit"
    /\ failed(errorMessage(error))

\* tx.wait() resolves with the receipt before the 60 s are over
WaitResolves ==
    /\ tx.pc = "wait"
    /\ hook' = [hook EXCEPT !.txStatus = Status("success", tx.id)]
    /\ tx' = [tx EXCEPT !.pc = "settle", !.confirmed = @ \cup {tx.id}]
    /\ UNCHANGED <<owner, balanceOf, log, stack, last, retry, pending, page>>

WaitRejects(error) ==
    /\ tx.pc = "wait"
    /\ failed(errorMessage(error))

\* the 60 s timer fires first
ConfirmTimeout ==
    /\ tx.pc = "wait"
    /\ failed("Transaction timeout. Please check your wallet.")

\* the pause after the success (5 s, or 2 s) is over: `await refresh()`, the
\* refresh the transaction captured when it started, connected
SettleElapsed ==
    /\ tx.pc = "settle"
    /\ hook' = refreshStarted(hook)
    /\ tx' = [tx EXCEPT !.pc = "refresh"]
    /\ UNCHANGED <<owner, balanceOf, log, stack, last, retry, pending, page>>

\* faulty variant: a refresh that failed fails the transaction
TxRefreshSettlesStrict(answer) ==
    /\ tx.pc = "refresh"
    /\ IF answer.ok
       THEN /\ hook' = [refreshSettled(hook, answer) EXCEPT !.isLoading = FALSE]
            /\ pending' = [pending EXCEPT !.clear = @ \cup {tx.id}]
            /\ tx' = [tx EXCEPT !.pc = "idle", !.result = "receipt",
                                !.refreshed = ended(answer)]
            /\ page' = [cleared(page, tx.handler) EXCEPT
                           !.isProcessing = FALSE, !.inFlight = @ - 1,
                           !.last = [handler |-> tx.handler, outcome |-> "done"]]
            /\ UNCHANGED <<owner, balanceOf, log, stack, last, retry>>
       ELSE /\ hook' = [hook EXCEPT !.error = errorMessage(answer.error),
                                    !.txStatus = Status("error", tx.id),
                                    !.isLoading = FALSE]
            /\ tx' = [tx EXCEPT !.pc = "idle", !.result = "thrown",
                                !.refreshed = ended(answer)]
            /\ page' = [page EXCEPT !.isProcessing = FALSE, !.inFlight = @ - 1,
                                    !.last = [handler |-> tx.handler, outcome |-> "failed"]]
            /\ UNCHANGED <<owner, balanceOf, log, stack, last, retry, pending>>

\* the transaction's refresh settles; in the same turn the hook function sets
\* the 5 s clear timer, returns the receipt and runs its finally, and the
\* handler empties its fields and resets isProcessing
TxRefreshSettles(answer) ==
    /\ tx.pc = "refresh"
    /\ hook' = [refreshSettled(hook, answer) EXCEPT !.isLoading = FALSE]
    /\ pending' = [pending EXCEPT !.clear = @ \cup {tx.id}]
    /\ tx' = [tx EXCEPT !.pc = "idle", !.result = "receipt",
                        !.refreshed = ended(answer)]
    /\ page' = [cleared(page, tx.handler) EXCEPT
                   !.isProcessing = FALSE, !.inFlight = @ - 1,
                   !.last = [handler |-> tx.handler, outcome |-> "done"]]
    /\ UNCHANGED <<owner, balanceOf, log, stack, last, retry>>

\* `setTimeout(() => setTxStatus(null), 5000)` of operation `id` fires
ClearTimerFires(id) ==
    /\ id \in pending.clear
    /\ hook' = [hook EXCEPT !.txStatus = Null]
    /\ pending' = [pending EXCEPT !.clear = @ \ {id}]
    /\ UNCHANGED <<owner, balanceOf, log, stack, last, retry, tx, page>>

\* ------------------------------------------------------------ the system
\* constructor(): owner = msg.sender; nothing is held, nothing is emitted
Init ==
    /\ owner \in Senders
    /\ balanceOf = [a \in Addresses |-> IF a \in Senders THEN Funds ELSE 0]
    /\ log = <<>>
    /\ stack = <<>>
    /\ last = Call("constructor", owner, ZeroAddress, 0, Ok, <<>>, "none",
                   [owner |-> owner, balanceOf |-> balanceOf, log |-> log], 0)
    /\ retry = Idle
    /\ Unmounted

Next ==
    \/ \E sender \in Senders, newOwner \in Addresses : ChangeOwner(sender, newOwner)
    \/ \E sender \in Senders : \E value \in 0 .. balanceOf[sender] :
           Deposit(sender, value)
    \/ \E sender \in Senders : \E value \in 0 .. balanceOf[sender] :
           Receive(sender, value)
    \/ \E sender \in Senders, to \in Addresses, amount \in 0 .. balanceOf[This] + 1 :
           Withdraw(sender, to, amount)
    \/ \E sender \in Senders, to \in Addresses : WithdrawAll(sender, to)
    \/ RecipientAccepts
    \/ RecipientReverts

Spec == Init /\ [][Next]_vars

\* the front end alone: one call of a retry helper against a vault at rest
RetryNext ==
    \/ \E helper \in Helpers, maxRetries \in 0 .. DefaultMaxRetries :
           retryWithBackoff(helper, maxRetries)
    \/ FnResolves
    \/ \E error \in Errors : FnRejects(error)
    \/ TimerFires

SpecRetry == Init /\ [][RetryNext]_vars

\* the front end alone: the page, the hook and their timers, with a wallet and
\* a network that answer as they please
Fields == {"sendTo", "sendAmount", "depositAmount", "withdrawAllTo"}

HookNext ==
    \/ Connect
    \/ Disconnect
    \/ refresh
    \/ \E answer \in Answers : RefreshSettles(answer)
    \/ \E field \in Fields : TypeInput(field)
    \/ handleSendFLR
    \/ handleDeposit
    \/ handleWithdrawAll
    \/ DelayElapsed
    \/ SubmitResolves
    \/ \E error \in Errors : SubmitRejects(error)
    \/ WaitResolves
    \/ \E error \in Errors : WaitRejects(error)
    \/ ConfirmTimeout
    \/ SettleElapsed
    \/ \E answer \in Answers : TxRefreshSettles(answer)
    \/ \E id \in 1 .. MaxOps : ClearTimerFires(id)

\* the vault deployed by "A", the page just loaded
HookInit == Init /\ owner = "A"

SpecHook == HookInit /\ [][HookNext]_vars

\* the timers fire and the continuations run; the wallet and the network
\* answer when they please, or not at all
SpecHookFair ==
    /\ SpecHook
    /\ WF_vars(DelayElapsed)
    /\ WF_vars(ConfirmTimeout)
    /\ WF_vars(SettleElapsed)
    /\ WF_vars(\E id \in 1 .. MaxOps : ClearTimerFires(id))

\* ================================================================ claims
\* Every formula reads `last`, the call that completed last, against the state
\* that call left: `last.pre` is the state in which the call started.

\* the notifications as a reader of the log expects them
DepositedNote(from, amount) == [name |-> "Deposited", from |-> from, amount |-> amount]
WithdrawnNote(to, amount) == [name |-> "Withdrawn", to |-> to, amount |-> amount]
OwnerChangedNote(oldOwner, newOwner) ==
    [name |-> "OwnerChanged", oldOwner |-> oldOwner, newOwner |-> newOwner]

Restricted == {"withdraw", "withdrawAll", "changeOwner"}
Withdrawals == {"withdraw", "withdrawAll"}
Completed == last.outcome # Pending
SameState ==
    /\ owner = last.pre.owner
    /\ balanceOf = last.pre.balanceOf
    /\ log = last.pre.log

\* C1: a restricted operation (withdraw, withdrawAll, changeOwner) called by
\* anyone but the current owner fails with Unauthorized ("Not owner") whatever
\* its arguments and the vault's state, leaves owner and balance unchanged and
\* records no notification.
C1_NonOwnerRejected ==
    (last.op \in Restricted /\ last.sender # last.pre.owner)
        => (last.outcome = Unauthorized /\ SameState)

\* a non-owner asked for a withdrawal that the owner would have been granted
C1_Witness ==
    /\ last.op = "withdraw"
    /\ last.sender # last.pre.owner
    /\ last.to \notin {ZeroAddress, This}
    /\ last.amount > 0
    /\ last.amount <= last.pre.balanceOf[This]
    /\ last.outcome = Unauthorized

\* the case of C2: the owner withdraws an amount the vault holds to a non-null
\* recipient which accepts the transfer
C2_Case ==
    /\ last.op = "withdraw"
    /\ Completed
    /\ last.sender = last.pre.owner
    /\ last.to # ZeroAddress
    /\ last.amount <= last.pre.balanceOf[This]
    /\ last.returned # "failure"

C3_Original ==
    (last.op = "withdraw" /\ last.amount > last.pre.balanceOf[This])
        => (last.outcome = InsufficientBalance /\ SameState)

\* C3 amended: withdraw(to, amount) with amount above the vault's balance
\* always fails and changes nothing; the failure is Unauthorized when the
\* caller is not the owner, else InvalidRecipient when `to` is null, else
\* InsufficientBalance.
C3_OverdrawRejected ==
    (last.op = "withdraw" /\ last.amount > last.pre.balanceOf[This])
        => /\ SameState
           /\ last.outcome =
                 IF last.sender # last.pre.owner THEN Unauthorized
                 ELSE IF last.to = ZeroAddress THEN InvalidRecipient
                 ELSE InsufficientBalance

\* the owner asked a non-empty vault for more than it holds
C3_Witness ==
    /\ last.op = "withdraw"
    /\ last.pre.balanceOf[This] > 0
    /\ last.amount > last.pre.balanceOf[This]
    /\ last.sender = last.pre.owner
    /\ last.to # ZeroAddress
    /\ last.outcome = InsufficientBalance

\* C4: when the recipient rejects the value transfer of a withdraw or
\* withdrawAll, the call fails with TransferFailed, the vault's and the
\* recipient's balances and the owner are as before the call and no Withdrawn
\* notification is recorded.
C4_RejectedTransferRollsBack ==
    (last.op \in Withdrawals /\ last.returned = "failure")
        => (last.outcome = TransferFailed /\ SameState)

\* a recipient with code turned down a positive amount
C4_Witness ==
    /\ last.op \in Withdrawals
    /\ last.returned = "failure"
    /\ last.to \in Contracts
    /\ last.amount > 0
    /\ last.outcome = TransferFailed

Checks == {"onlyOwner", "requireTo", "requireBalance"}
CheckFailures == {NotOwner, ZeroAddr, InsufficientBal, NoBalanceMsg}
Attempted == \E i \in 1 .. Len(last.trace) : last.trace[i] = "call"
Emitted == \E i \in 1 .. Len(last.trace) : last.trace[i] = "emit"

\* C5: withdraw and withdrawAll go through the owner check first, then the
\* recipient and balance checks, then the transfer, then the Withdrawn
\* notification; no transfer is attempted when a check fails, and Withdrawn is
\* recorded only after the transfer reported success.
C5_CheckThenTransferThenEmit ==
    last.op \in Withdrawals =>
        /\ last.trace[1] = "onlyOwner"
        /\ last.outcome \in CheckFailures
              => (~Attempted /\ last.returned = "none" /\ SameState)
        /\ Attempted
              => /\ {last.trace[i] : i \in 1 .. 3} = Checks
                 /\ last.trace[4] = "call"
        /\ last.outcome = Pending => (last.trace[Len(last.trace)] = "call" /\ log = last.pre.log)
        /\ Emitted
              => /\ last.returned = "success"
                 /\ SubSeq(last.trace, 4, Len(last.trace)) = <<"call", "requireSuccess", "emit">>
        /\ (log # <<>> /\ Len(log) > Len(last.pre.log)
            /\ log[Len(log)] = WithdrawnNote(last.to, last.amount))
              => Emitted

\* a withdrawAll went through every step and recorded its notification
C5_Witness ==
    /\ last.op = "withdrawAll"
    /\ last.outcome = Ok
    /\ last.trace = <<"onlyOwner", "requireBalance", "requireTo", "call",
                      "requireSuccess", "emit">>
    /\ log[Len(log)] = WithdrawnNote(last.to, last.amount)

\* C6: deposit() with no value attached fails with ZeroValue and changes
\* nothing; with value v > 0 it succeeds, the vault balance is exactly v
\* higher, the owner is unchanged and Deposited(sender, v) is emitted.
C6_Deposit ==
    last.op = "deposit" =>
        IF last.amount = 0
        THEN last.outcome = ZeroValue /\ SameState
        ELSE /\ last.outcome = Ok
             /\ balanceOf[This] = last.pre.balanceOf[This] + last.amount
             /\ owner = last.pre.owner
             /\ log = Append(last.pre.log, DepositedNote(last.sender, last.amount))

\* somebody who is not the owner deposited a positive value
C6_Witness ==
    /\ last.op = "deposit"
    /\ last.amount > 0
    /\ last.sender # owner
    /\ last.outcome = Ok

\* C7: changeOwner(X) by the current owner with X non-null sets owner to X,
\* leaves the balance unchanged and emits OwnerChanged(old, X), old being the
\* owner right before the call.
C7_OwnerChanges ==
    (last.op = "changeOwner" /\ last.sender = last.pre.owner /\ last.to # ZeroAddress)
        => /\ last.outcome = Ok
           /\ owner = last.to
           /\ balanceOf = last.pre.balanceOf
           /\ log = Append(last.pre.log, OwnerChangedNote(last.pre.owner, last.to))

\* the owner of a non-empty vault handed it to somebody else
C7_Witness ==
    /\ last.op = "changeOwner"
    /\ last.sender = last.pre.owner
    /\ last.to \notin {ZeroAddress, last.pre.owner}
    /\ balanceOf[This] > 0
    /\ owner = last.to

\* C8: changeOwner(null) by the current owner fails with InvalidRecipient and
\* has no effect: owner and balance are unchanged and no OwnerChanged is
\* recorded.
C8_NullOwnerRejected ==
    (last.op = "changeOwner" /\ last.sender = last.pre.owner /\ last.to = ZeroAddress)
        => (last.outcome = InvalidRecipient /\ SameState)

C8_Witness ==
    /\ last.op = "changeOwner"
    /\ last.sender = last.pre.owner
    /\ last.to = ZeroAddress
    /\ last.outcome = InvalidRecipient
    /\ owner = last.sender

\* the OwnerChanged notifications among the first n of a log
RECURSIVE LastOwnerChanged(_, _)
LastOwnerChanged(l, n) ==
    IF n = 0 THEN 0
    ELSE IF l[n].name = "OwnerChanged" THEN n
    ELSE LastOwnerChanged(l, n - 1)

\* C9: once changeOwner(X) has succeeded with X other than the old owner, and
\* until X hands the vault on, every restricted call by the old owner fails
\* with Unauthorized and no restricted call by X does.
C9_AuthorityFollowsOwner ==
    LET l == last.pre.log
        n == LastOwnerChanged(l, Len(l))
    IN  (last.op \in Restricted /\ n > 0 /\ l[n].oldOwner # l[n].newOwner)
            => /\ last.sender = l[n].oldOwner => last.outcome = Unauthorized
               /\ last.sender = l[n].newOwner => last.outcome # Unauthorized

\* after a hand-over the old owner asked for a withdrawal the vault could pay
C9_Witness ==
    LET l == last.pre.log
        n == LastOwnerChanged(l, Len(l))
    IN  /\ n > 0
        /\ l[n].oldOwner # l[n].newOwner
        /\ last.op = "withdraw"
        /\ last.sender = l[n].oldOwner
        /\ last.to # ZeroAddress
        /\ last.amount <= last.pre.balanceOf[This]
        /\ last.outcome = Unauthorized

\* C10 as stated: withdrawAll(to) on a vault holding nothing fails with
\* NoBalance for every caller and every `to`, a null `to` included, and
\* changes nothing.
C10_Original ==
    (last.op = "withdrawAll" /\ last.pre.balanceOf[This] = 0)
        => (last.outcome = NoBalance /\ SameState)

\* C10 amended: withdrawAll(to) on a vault holding nothing always fails and
\* changes nothing; the failure is NoBalance when the owner calls, for every
\* `to`, a null `to` included, and Unauthorized when anyone else calls.
C10_EmptyVault ==
    (last.op = "withdrawAll" /\ last.pre.balanceOf[This] = 0)
        => /\ SameState
           /\ last.outcome =
                 IF last.sender # last.pre.owner THEN Unauthorized ELSE NoBalance

\* the owner asked an empty vault to pay everything to the null address
C10_Witness ==
    /\ last.op = "withdrawAll"
    /\ last.pre.balanceOf[This] = 0
    /\ last.sender = last.pre.owner
    /\ last.to = ZeroAddress
    /\ last.outcome = NoBalance

\* ------------------------------------------------------------ C11 .. C19
\* a withdrawAll has completed successfully
C11_Case == last.op = "withdrawAll" /\ last.outcome = Ok

WithdrawOutcome(l) ==
    IF l.sender # l.pre.owner THEN Unauthorized
    ELSE IF l.to = ZeroAddress THEN InvalidRecipient
    ELSE IF l.amount > l.pre.balanceOf[This] THEN InsufficientBalance
    ELSE IF l.returned = "failure" THEN TransferFailed
    ELSE Ok

BehavesAsWithdraw(l) ==
    /\ l.outcome = WithdrawOutcome(l)
    /\ l.outcome # Ok => SameState
    /\ l.outcome = Ok =>
          /\ log # <<>> /\ log[Len(log)] = WithdrawnNote(l.to, l.amount)
          /\ (l.to # This /\ log = Append(l.pre.log, WithdrawnNote(l.to, l.amount)))
                => balanceOf[This] = l.pre.balanceOf[This] - l.amount
          /\ l.to = This => balanceOf[This] = l.pre.balanceOf[This]

\* in the present state the checks of withdrawAll(to) and of withdraw(to, b),
\* b the vault's balance, give every caller and recipient the same answer
ChecksAgree ==
    LET b == balanceOf[This]
    IN  \A sender \in Senders, to \in Addresses :
            withdrawAllChecks(sender, to, b).outcome = withdrawChecks(sender, to, b).outcome

C12_Equivalent ==
    /\ balanceOf[This] > 0 => ChecksAgree
    /\ (last.op = "withdraw" /\ Completed) => BehavesAsWithdraw(last)
    /\ (last.op = "withdrawAll" /\ Completed /\ last.pre.balanceOf[This] > 0)
          => (last.amount = last.pre.balanceOf[This] /\ BehavesAsWithdraw(last))

\* C12 as stated: with balance b > 0, withdrawAll(to) has the outcome of
\* withdraw(to, b) for every caller and recipient (same success or failure
\* kind, same owner, balance and notifications); with b = 0 withdrawAll fails
\* with NoBalance.
C12_Original ==
    /\ C12_Equivalent
    /\ (last.op = "withdrawAll" /\ last.pre.balanceOf[This] = 0)
          => (last.outcome = NoBalance /\ SameState)

\* C12 amended: with balance b > 0, withdrawAll(to) has the outcome of
\* withdraw(to, b) for every caller and recipient; with b = 0 withdrawAll
\* fails and changes nothing, with NoBalance when the owner calls and with
\* Unauthorized, as withdraw does, when anyone else calls.
C12_WithdrawAllAsWithdraw ==
    /\ C12_Equivalent
    /\ (last.op = "withdrawAll" /\ last.pre.balanceOf[This] = 0)
          => /\ SameState
             /\ last.outcome =
                   IF last.sender # last.pre.owner THEN Unauthorized ELSE NoBalance

\* the owner's withdrawAll to the null address was turned down as withdraw's is
C12_Witness ==
    /\ last.op = "withdrawAll"
    /\ last.pre.balanceOf[This] > 0
    /\ last.sender = last.pre.owner
    /\ last.to = ZeroAddress
    /\ last.outcome = InvalidRecipient

\* the amounts of the notifications called `name` in a log, summed
RECURSIVE Total(_, _)
Total(l, name) ==
    IF l = <<>> THEN 0
    ELSE (IF Head(l).name = name THEN Head(l).amount ELSE 0) + Total(Tail(l), name)

\* a step in which the owner repeats, as the very next call, a withdraw that
\* has just succeeded and left less than its amount in the vault
Replayed ==
    /\ last.op = "withdraw"
    /\ last.outcome = Ok
    /\ balanceOf[This] < last.amount
    /\ last'.op = "withdraw"
    /\ last'.pre = State
    /\ last'.sender = owner
    /\ last'.sender = last.sender
    /\ last'.to = last.to
    /\ last'.amount = last.amount

\* C13: sufficiency is checked anew by every call: when withdraw(to, a) by the
\* owner has succeeded and left less than a, the same call made again fails
\* with InsufficientBalance and changes nothing; and the withdrawals on record
\* never add up to more than the vault has received.
C13_NoReplay ==
    /\ [][Replayed => (last'.outcome = InsufficientBalance
                       /\ UNCHANGED <<owner, balanceOf, log>>)]_vars
    /\ [](Total(log, "Withdrawn") <= Total(log, "Deposited"))

\* the owner's withdraw followed the same withdraw and found too little left
C13_Witness ==
    /\ last.op = "withdraw"
    /\ last.sender = last.pre.owner
    /\ last.amount > 0
    /\ last.pre.log # <<>>
    /\ last.pre.log[Len(last.pre.log)] = WithdrawnNote(last.to, last.amount)
    /\ last.pre.balanceOf[This] < last.amount
    /\ last.outcome = InsufficientBalance

\* ------------------------------------------------ the end-to-end scenario
\* three distinct identities: the creator, a depositor holding ten units and a
\* payee that holds nothing and only receives
Creator == "A"
Depositor == "R"
Payee == "B"

\* constructor() called by the creator
ScenarioInit ==
    /\ owner = Creator
    /\ balanceOf = [a \in Addresses |-> IF a = Depositor THEN 10 ELSE 0]
    /\ log = <<>>
    /\ stack = <<>>
    /\ last = Call("constructor", owner, ZeroAddress, 0, Ok, <<>>, "none",
                   [owner |-> owner, balanceOf |-> balanceOf, log |-> log], 0)
    /\ retry = Idle
    /\ Unmounted

\* the calls of the contract with the scenario's amounts and identities, and a
\* few beside them: a deposit of nothing, a recipient with code, the null address
ScenarioNext ==
    \/ \E sender \in Senders, newOwner \in {Depositor, ZeroAddress} :
           ChangeOwner(sender, newOwner)
    \/ \E sender \in Senders : \E value \in {0, 10} \cap (0 .. balanceOf[sender]) :
           Deposit(sender, value)
    \/ \E sender \in Senders : \E value \in {10} \cap (0 .. balanceOf[sender]) :
           Receive(sender, value)
    \/ \E sender \in Senders, to \in {Payee, Depositor, ZeroAddress}, amount \in {1, 4, 6} :
           Withdraw(sender, to, amount)
    \/ \E sender \in Senders, to \in {Payee, Depositor} : WithdrawAll(sender, to)
    \/ RecipientAccepts
    \/ RecipientReverts

SpecScenario == ScenarioInit /\ [][ScenarioNext]_vars

\* the states the scenario goes through, as (owner, vault balance, log)
At(o, b, l) == o = owner /\ b = balanceOf[This] /\ l = log
From(o, b, l) ==
    o = last.pre.owner /\ b = last.pre.balanceOf[This] /\ l = last.pre.log
Did(op, sender, to, amount) ==
    /\ last.op = op
    /\ last.sender = sender
    /\ last.to = to
    /\ last.amount = amount
    /\ last.outcome # Pending
Log1 == <<DepositedNote(Depositor, 10)>>
Log2 == Log1 \o <<WithdrawnNote(Payee, 4)>>
Log3 == Log2 \o <<WithdrawnNote(Payee, 6)>>

\* C14: the end-to-end trace, step by step, for distinct identities A (the
\* creator), B (the depositor) and C (the payee): creation gives owner = A and
\* balance 0; B's deposit of 10 gives balance 10 and Deposited(B, 10); A's
\* withdraw of 4 to C gives balance 6 and Withdrawn(C, 4); B's withdraw(C, 1)
\* fails Unauthorized with the balance still 6; A's withdrawAll(C) gives
\* balance 0 and Withdrawn(C, 6); the log is those three notifications.
C14_EndToEnd ==
    /\ last.op = "constructor" => At(Creator, 0, <<>>)
    /\ (Did("deposit", Depositor, This, 10) /\ From(Creator, 0, <<>>))
          => (last.outcome = Ok /\ At(Creator, 10, Log1))
    /\ (Did("withdraw", Creator, Payee, 4) /\ From(Creator, 10, Log1))
          => (last.outcome = Ok /\ At(Creator, 6, Log2))
    /\ (Did("withdraw", Depositor, Payee, 1) /\ From(Creator, 6, Log2))
          => (last.outcome = Unauthorized /\ At(Creator, 6, Log2))
    /\ (Did("withdrawAll", Creator, Payee, 6) /\ From(Creator, 6, Log2))
          => (last.outcome = Ok /\ At(Creator, 0, Log3))

\* the scenario has run to its end
C14_Witness ==
    /\ Did("withdrawAll", Creator, Payee, 6)
    /\ From(Creator, 6, Log2)
    /\ At(Creator, 0, Log3)
    /\ balanceOf[Payee] = 10

\* -------------------------------------------------------------- C15 .. C19
\* C15: in every state reachable after construction, whoever calls whatever,
\* owner is not the null address.
C15_OwnerNeverNull == owner # ZeroAddress

\* a later owner, not the creator, tried to hand the vault to the null address
C15_Witness ==
    /\ last.op = "changeOwner"
    /\ last.to = ZeroAddress
    /\ last.sender = last.pre.owner
    /\ last.pre.log # <<>>
    /\ last.pre.log[Len(last.pre.log)].name = "OwnerChanged"
    /\ owner = last.sender

\* the amounts sent by the withdrawals whose recipient is still running
RECURSIVE InFlight(_)
InFlight(frames) ==
    IF frames = <<>> THEN 0 ELSE Head(frames).amount + InFlight(Tail(frames))

Recorded == Total(log, "Deposited") - Total(log, "Withdrawn")

C17_NoCallInsideACall == last.depth = 0

KeptFailing ==
    /\ retry.pc = "thrown"
    /\ retry.maxRetries = DefaultMaxRetries
    /\ \A k \in 1 .. Len(retry.errors) : isRateLimited(retry.errors[k])

\* C20: when calls keep failing with a rate-limit error, the retry waits 2 s,
\* then 4 s, then 8 s between successive attempts, in each of the retry
\* helpers of the app (delays in milliseconds).
C20_Backoff == KeptFailing => retry.delays = <<2000, 4000, 8000>>

\* a rate-limit error as the claims describe it: code -32005 or HTTP status 429
RateLimitError(error) == error.code = -32005 \/ error.httpStatus = 429

\* C21: retryWithBackoff(fn, maxRetries, baseDelay) invokes fn at most
\* maxRetries times; it invokes fn again only after a failure that is a
\* rate-limit error; it returns the first successful result without invoking
\* fn again; a non-rate-limit error, or a rate-limit error on the last attempt,
\* is propagated to the caller unchanged.
C21_Retry ==
    /\ retry.calls <= retry.maxRetries
    /\ Len(retry.errors) <= retry.calls
    /\ \A k \in 1 .. Len(retry.errors) :
          (k < retry.calls \/ retry.pc \in {"fn", "sleep"})
              => RateLimitError(retry.errors[k])
    /\ (retry.pc = "returned" /\ retry.maxRetries > 0)
          => /\ retry.result = "value"
             /\ retry.calls = Len(retry.errors) + 1
             /\ retry.thrown = <<>>
    /\ retry.pc = "thrown"
          => /\ retry.calls = Len(retry.errors)
             /\ retry.thrown = <<retry.errors[retry.calls]>>
             /\ (~RateLimitError(retry.errors[retry.calls])
                    \/ retry.calls = retry.maxRetries)
    /\ \A k \in 1 .. Len(retry.errors) :
          (~RateLimitError(retry.errors[k]) \/ k = retry.maxRetries)
              => (retry.pc = "thrown" /\ k = retry.calls)

\* fn answered on the third attempt, after two rate-limit errors of both kinds
C21_Witness ==
    /\ retry.pc = "returned"
    /\ retry.calls = 3
    /\ retry.result = "value"
    /\ Len(retry.errors) = 2
    /\ retry.errors[1].httpStatus = 429
    /\ retry.errors[2].code = -32005

\* ------------------------------------------------------ the front end's claims
\* the hook transaction has set its pending status and has not yet set success
\* or error
Underway == tx.pc \in {"delay", "submit", "wait"}

\* the step in which a hook transaction ends in its catch block
Fails == tx.pc \in {"submit", "wait"} /\ tx'.pc = "idle"

C23_RefreshFailureIsHarmless ==
    (tx.pc = "idle" /\ tx.refreshed \in {"rate limited", "failed"})
        => /\ tx.result = "receipt"
           /\ tx.id \in tx.confirmed
           /\ hook.txStatus \in {Status("success", tx.id), Null}
           /\ tx.id \in pending.clear \/ hook.txStatus = Null

\* the refresh after the receipt failed with an error that is no rate limit,
\* and the operation has returned with its success still shown
C23_Witness ==
    /\ tx.pc = "idle"
    /\ tx.refreshed = "failed"
    /\ tx.result = "receipt"
    /\ hook.txStatus = Status("success", tx.id)
    /\ hook.error # "null"

\* the step in which a refresh, the page's or a transaction's, ends rate limited
EndsRateLimited ==
    \/ /\ pending.refresh = "fetch"
       /\ pending'.refresh = "idle"
       /\ pending'.settled = "rate limited"
       /\ tx' = tx
    \/ /\ tx.pc = "refresh"
       /\ tx'.pc = "idle"
       /\ tx'.refreshed = "rate limited"

\* C24: when a refresh, while connected, still fails with a rate-limit error
\* after its retries, contractBalance and owner keep their last known values,
\* error is not set, and isLoading ends false; when not connected, refresh
\* sets contractBalance to "0" and owner to null without any RPC call.
C24_RefreshKeepsLastKnown ==
    /\ [][EndsRateLimited => /\ hook'.contractBalance = hook.contractBalance
                             /\ hook'.owner = hook.owner
                             /\ hook'.error = hook.error
                             /\ ~hook'.isLoading]_vars
    /\ [][((refresh \/ Disconnect) /\ ~page'.isConnected)
              => /\ hook'.contractBalance = "0"
                 /\ hook'.owner = "null"
                 /\ pending' = pending]_vars

\* a refresh ended rate limited with the values of an earlier refresh on display
C24_Witness ==
    /\ pending.settled = "rate limited"
    /\ pending.refresh = "idle"
    /\ page.isConnected
    /\ hook.contractBalance = "1.5"
    /\ hook.owner = "0xA"
    /\ hook.error = "null"
    /\ ~hook.isLoading

\* C25: from the moment a hook transaction sets txStatus to 'pending' until
\* that same transaction sets 'success' or 'error', txStatus is never null and
\* never shows another operation's status, in every interleaving with the
\* clear timers left by earlier operations.
C25_StatusIsOwn ==
    Underway => (hook.txStatus.type # "null" /\ hook.txStatus.id = tx.id)

\* C26: isLoading is true continuously from the start of a deposit, withdraw
\* or withdrawAll until that operation completes, in every interleaving with
\* the periodic and the manual refresh.
C26_LoadingThroughout == tx.pc # "idle" => hook.isLoading

\* the step in which a field of the page is emptied
Emptied == \E f \in Fields : page[f] /\ ~page'[f]

\* C27: at most one of the page's three transaction handlers is in flight at
\* any time: a handler invoked while isProcessing is true returns without
\* submitting anything; isProcessing is false again after every handler run,
\* on success and on failure; the input fields are cleared only on success.
C27_OneHandlerAtATime ==
    /\ [](page.inFlight <= 1)
    /\ [](page.isProcessing <=> page.inFlight = 1)
    /\ [](page.last.outcome \in {"done", "failed"} => ~page.isProcessing)
    /\ [][((handleSendFLR \/ handleDeposit \/ handleWithdrawAll) /\ page.isProcessing)
              => /\ page'.last.outcome = "ignored"
                 /\ UNCHANGED <<hook, tx, pending>>
                 /\ page'.inFlight = page.inFlight]_vars
    /\ [][Emptied => /\ page'.last.outcome = "done"
                     /\ tx'.result = "receipt"
                     /\ page' = [cleared(page, tx.handler) EXCEPT
                                    !.isProcessing = FALSE, !.inFlight = 0,
                                    !.last = page'.last]]_vars

\* Deposit was clicked, its field filled, while a send was in flight: ignored
C27_Witness ==
    /\ page.isProcessing
    /\ page.depositAmount
    /\ tx.handler = "handleSendFLR"
    /\ tx.pc = "wait"
    /\ page.last = [handler |-> "handleDeposit", outcome |-> "ignored"]

\* C28: every hook transaction that is started eventually completes: txStatus
\* eventually becomes 'success' or 'error' and isLoading eventually becomes
\* false, whatever the wallet and the network do, including a submission or a
\* confirmation that never answers.
C28_Completes ==
    /\ Underway ~> (hook.txStatus.type \in {"success", "error"}
                        /\ hook.txStatus.id = tx.id)
    /\ tx.pc # "idle" ~> (tx.pc = "idle" /\ ~hook.isLoading)

====
